---- MODULE Spec2Model ----
(***************************************************************************)
(* node-sass-extra: render / renderSync of src/unnamed/part_000 (the       *)
(* 0.3.3 index module).  A call is modelled from the options it is given   *)
(* to the value it returns or the error it throws, with the glob matcher,  *)
(* the compiler (node-sass) and the file system (fs-extra) as the          *)
(* environment.                                                            *)
(*                                                                         *)
(* JavaScript strings are sequences of one-character strings, so that the  *)
(* regular expressions and the path functions of the code are computed and *)
(* not assumed.  A JavaScript value is a record tagged by its type.        *)
(***************************************************************************)
EXTENDS Integers, Sequences, FiniteSets, TLC

(***************************************************************************)
(* Bounds of the model.                                                    *)
(***************************************************************************)
\* the longest array given as `data` or `file`
MaxEntries == 2

(***************************************************************************)
(* Strings.                                                                *)
(***************************************************************************)
\* F(v), with v evaluated once and then bound: the let of a value that is
\* used more than once
With(v, F(_)) == CHOOSE r \in {F(x) : x \in {v}} : TRUE

\* the characters \S does not match
Whitespace == {" ", "\n", "\t"}

RECURSIVE JoinWith(_, _)
\* Array.prototype.join on strings: ss[1] sep ss[2] sep ...
JoinWith(ss, sep) ==
    IF ss = <<>> THEN <<>>
    ELSE IF Len(ss) = 1 THEN ss[1]
    ELSE ss[1] \o sep \o With(Tail(ss), LAMBDA rest : JoinWith(rest, sep))

\* s ends with the string suf
EndsWith(s, suf) ==
    /\ Len(s) >= Len(suf)
    /\ SubSeq(s, Len(s) - Len(suf) + 1, Len(s)) = suf

\* s without its last n characters
DropLast(s, n) == SubSeq(s, 1, Len(s) - n)

\* the positions of the character c in s
Positions(s, c) == {i \in 1..Len(s) : s[i] = c}

\* the members of a set of numbers in increasing order
Sorted(P) ==
    [k \in 1..Cardinality(P) |-> CHOOSE p \in P : Cardinality({q \in P : q < p}) = k - 1]

\* String.prototype.split on a one-character separator: the pieces between
\* the occurrences of c
SplitOn(s, c) ==
    With(Sorted(Positions(s, c)), LAMBDA cut :
        [k \in 1..(Len(cut) + 1) |->
            SubSeq(s, IF k = 1 THEN 1 ELSE cut[k - 1] + 1,
                      IF k > Len(cut) THEN Len(s) ELSE cut[k] - 1)])

(***************************************************************************)
(* The path module of Node (POSIX).                                        *)
(***************************************************************************)
Slash == <<"/">>
Dot == <<".">>
DotDot == <<".", ".">>

\* process.cwd(), the directory relative paths are resolved against
Cwd == <<"/", "w">>

RECURSIVE NormalizeSegments(_, _, _)
\* normalizeString of path: drops empty and '.' segments and resolves '..'
\* against the segments kept so far (acc); above the root '..' is dropped,
\* in a relative path it is kept
NormalizeSegments(segs, acc, absolute) ==
    IF segs = <<>> THEN acc
    ELSE With(Tail(segs), LAMBDA rest :
         With(Head(segs), LAMBDA seg :
            IF seg = <<>> \/ seg = Dot
                THEN NormalizeSegments(rest, acc, absolute)
            ELSE IF seg = DotDot /\ acc # <<>> /\ acc[Len(acc)] # DotDot
                THEN With(DropLast(acc, 1), LAMBDA up :
                        NormalizeSegments(rest, up, absolute))
            ELSE IF seg = DotDot /\ absolute
                THEN NormalizeSegments(rest, acc, absolute)
            ELSE With(Append(acc, seg), LAMBDA down :
                        NormalizeSegments(rest, down, absolute))))

\* path.normalize
PathNormalize(p) ==
    IF p = <<>> THEN Dot
    ELSE With(p[1] = "/", LAMBDA absolute :
         With(SplitOn(p, "/"), LAMBDA segs :
         With(NormalizeSegments(segs, <<>>, absolute), LAMBDA kept :
         With(JoinWith(kept, Slash), LAMBDA body :
            (IF absolute THEN Slash ELSE <<>>)
            \o (IF body = <<>> /\ ~absolute THEN Dot ELSE body)
            \o (IF body # <<>> /\ p[Len(p)] = "/" THEN Slash ELSE <<>>)))))

\* path.join(a, b): empty arguments are skipped, the rest joined and normalized
PathJoin(a, b) ==
    IF a = <<>> /\ b = <<>> THEN Dot
    ELSE IF a = <<>> THEN PathNormalize(b)
    ELSE IF b = <<>> THEN PathNormalize(a)
    ELSE With(a \o Slash \o b, LAMBDA joined : PathNormalize(joined))

\* path.resolve(p): absolute, normalized, without a trailing slash
PathResolve(p) ==
    With(IF p # <<>> /\ p[1] = "/" THEN p ELSE Cwd \o Slash \o p, LAMBDA full :
    With(SplitOn(full, "/"), LAMBDA segs :
    With(NormalizeSegments(segs, <<>>, TRUE), LAMBDA kept :
        Slash \o JoinWith(kept, Slash))))

\* p without the slashes it ends with
StripTrailingSlashes(p) ==
    With({i \in 1..Len(p) : p[i] # "/"}, LAMBDA kept :
        IF kept = {} THEN <<>>
        ELSE SubSeq(p, 1, CHOOSE i \in kept : \A j \in kept : j <= i))

\* the whole path for its base name: a fault C13 has to detect
PathBasenameWhole(p) == p

\* path.basename(p): the last segment, trailing slashes ignored
PathBasename(p) ==
    With(StripTrailingSlashes(p), LAMBDA q :
    With(SplitOn(q, "/"), LAMBDA segs : segs[Len(segs)]))

(***************************************************************************)
(* JavaScript values.  A property that is absent and a property that holds *)
(* undefined read the same and are not told apart.                         *)
(***************************************************************************)
Undefined == [kind |-> "undefined"]
Str(s) == [kind |-> "string", s |-> s]
Bool(b) == [kind |-> "boolean", b |-> b]
Arr(a) == [kind |-> "array", a |-> a]
Fn(name) == [kind |-> "function", name |-> name]

IsString(v) == v.kind = "string"

\* ToBoolean
Truthy(v) ==
    CASE v.kind = "undefined" -> FALSE
      [] v.kind = "string" -> v.s # <<>>
      [] v.kind = "boolean" -> v.b
      [] OTHER -> TRUE

\* a || b
\* b || a, the operands the wrong way round: a fault C7 has to detect
OrElseSecond(a, b) == IF Truthy(b) THEN b ELSE a

OrElse(a, b) == IF Truthy(a) THEN a ELSE b

\* the text of the callbacks of the model, as Function.prototype.toString
\* gives it:   () => 'd'   and   f => 'd/' + f   and   () => true
FnText(name) ==
    CASE name = "toDir" -> <<"(", ")", " ", "=", ">", " ", "'", "d", "'">>
      [] name = "toCss" -> <<"(", ")", " ", "=", ">", " ", "'", "d", "/", "o", ".", "c", "s", "s", "'">>
      [] name = "under" -> <<"f", " ", "=", ">", " ", "'", "d", "/", "'", " ", "+", " ", "f">>
      [] name = "mapTrue" -> <<"(", ")", " ", "=", ">", " ", "t", "r", "u", "e">>

\* what a callback of the model returns for the string arg
CallFn(name, arg) ==
    CASE name = "toDir" -> Str(<<"d">>)
      [] name = "toCss" -> Str(<<"d", "/", "o", ".", "c", "s", "s">>)
      [] name = "under" -> Str(<<"d", "/">> \o arg)
      [] name = "mapTrue" -> Bool(TRUE)

RECURSIVE ToText(_)
\* ToString, as a regular expression or a join applies it to its argument
ToText(v) ==
    CASE v.kind = "undefined" -> <<"u", "n", "d", "e", "f", "i", "n", "e", "d">>
      [] v.kind = "string" -> v.s
      [] v.kind = "boolean" -> IF v.b THEN <<"t", "r", "u", "e">>
                               ELSE <<"f", "a", "l", "s", "e">>
      [] v.kind = "function" -> FnText(v.name)
      [] v.kind = "array" ->
            With([i \in 1..Len(v.a) |->
                    IF v.a[i].kind = "undefined" THEN <<>> ELSE ToText(v.a[i])],
                 LAMBDA items : JoinWith(items, <<",">>))

(***************************************************************************)
(* Utilities of the module.                                                *)
(***************************************************************************)
\* /\.\S+$/ on a string: a dot followed by one or more non-blank characters
\* up to the end
MatchesDotSuffix(s) ==
    \E i \in 1..Len(s) :
        /\ s[i] = "."
        /\ i < Len(s)
        /\ \A j \in (i + 1)..Len(s) : s[j] \notin Whitespace

\* isFile(filePath): the test converts its argument to a string
isFile(v) == With(ToText(v), LAMBDA s : MatchesDotSuffix(s))

\* arrayify(item) = [].concat(item): an array is copied, anything else wrapped
arrayify(v) == IF v.kind = "array" THEN v.a ELSE <<v>>

\* a value returned, or an error thrown
Ok(v) == [ok |-> TRUE, v |-> v]
Throw(e) == [ok |-> FALSE, err |-> e]

\* outFile.replace(/\.(s[ca]|c)ss$/, '.css')
ReplaceCssSuffix(s) ==
    IF EndsWith(s, <<".", "s", "c", "s", "s">>) \/ EndsWith(s, <<".", "s", "a", "s", "s">>)
        THEN DropLast(s, 5) \o <<".", "c", "s", "s">>
    ELSE IF EndsWith(s, <<".", "c", "s", "s">>)
        THEN DropLast(s, 4) \o <<".", "c", "s", "s">>
    ELSE s

\* sourceMap + '.map', whatever the end of sourceMap: a fault C14 has to
\* detect
AppendMapSuffix(s) == s \o <<".", "m", "a", "p">>

\* sourceMap.replace(/(\.map)?$/, '.map'): the leftmost match is a final
\* '.map' when there is one, the empty string at the end otherwise
ReplaceMapSuffix(s) ==
    IF EndsWith(s, <<".", "m", "a", "p">>) THEN s ELSE s \o <<".", "m", "a", "p">>

\* joinSourceFiles(files): an @import statement per file, joined by newlines;
\* path.resolve throws a TypeError on anything but a string
joinSourceFiles(files) ==
    IF \E i \in 1..Len(files) : ~IsString(files[i])
        THEN Throw("TypeError")
    ELSE With([i \in 1..Len(files) |->
                    <<"@", "i", "m", "p", "o", "r", "t", " ", "'">>
                    \o PathResolve(files[i].s) \o <<"'", ";">>],
              LAMBDA imports : Ok(JoinWith(imports, <<"\n">>)))

\* an array whatever its length: a fault C5 has to detect
marshalArrayKept(arrayData) == Arr(arrayData)

\* marshalArray(arrayData): the only item of a one-item array, else the array
marshalArray(arrayData) ==
    IF Len(arrayData) = 1 THEN arrayData[1] ELSE Arr(arrayData)

(***************************************************************************)
(* Destinations.                                                           *)
(***************************************************************************)
\* the last two statements of getOutFile, on the output determined so far
ResolveOutFile(determined) ==
    IF ~isFile(determined) THEN Throw("InvalidOutput")
    ELSE IF ~IsString(determined) THEN Throw("TypeError")
    ELSE With(ReplaceCssSuffix(determined.s), LAMBDA named : Ok(Str(PathResolve(named))))

\* getOutFile(source, outFile): source is a string, outFile a truthy value;
\* path.join throws a TypeError on anything but a string
getOutFile(source, outFile) ==
    IF isFile(source)
        THEN With(IF outFile.kind = "function" THEN CallFn(outFile.name, source.s)
                  ELSE outFile,
                  LAMBDA called :
                    IF isFile(called) THEN ResolveOutFile(called)
                    ELSE IF ~IsString(called) THEN Throw("TypeError")
                    ELSE With(PathBasename(source.s), LAMBDA base :
                         With(Str(PathJoin(called.s, base)), LAMBDA joined :
                            ResolveOutFile(joined))))
    ELSE ResolveOutFile(outFile)

\* the last statement of getSourceMap, on the path determined so far
ResolveSourceMap(path) ==
    With(ReplaceMapSuffix(path), LAMBDA named : Ok(Str(PathResolve(named))))

\* a getSourceMap that takes a file path only and throws the error of
\* getOutFile for a directory: a fault C23 has to detect
getSourceMapFileOnly(outFile, sourceMap) ==
    With(IF sourceMap.kind = "function" THEN CallFn(sourceMap.name, ToText(outFile))
         ELSE sourceMap,
         LAMBDA called :
    With(IF called = Bool(TRUE) THEN outFile ELSE called, LAMBDA named :
        IF ~isFile(named) THEN Throw("InvalidOutput")
        ELSE IF ~IsString(named) THEN Throw("TypeError")
        ELSE ResolveSourceMap(named.s)))

\* getSourceMap(outFile, sourceMap): sourceMap is truthy; outFile is the
\* task's outFile, a string whenever validateOptions accepted the request
\* (path.basename and path.join throw a TypeError on anything else)
getSourceMap(outFile, sourceMap) ==
    With(IF sourceMap.kind = "function" THEN CallFn(sourceMap.name, ToText(outFile))
         ELSE sourceMap,
         LAMBDA called :
    With(IF called = Bool(TRUE) THEN outFile ELSE called, LAMBDA named :
        IF ~isFile(named)
            THEN IF IsString(named) /\ IsString(outFile)
                    THEN With(PathBasename(outFile.s), LAMBDA base :
                         With(PathJoin(named.s, base), LAMBDA joined :
                            ResolveSourceMap(joined)))
                 ELSE Throw("TypeError")
        ELSE IF ~IsString(named) THEN Throw("TypeError")
        ELSE ResolveSourceMap(named.s)))

(***************************************************************************)
(* Tasks.  A task is the options object handed to node-sass: its data,     *)
(* file, outFile and sourceMap properties, and rest for every other        *)
(* property of the request, which the module copies and never reads.       *)
(***************************************************************************)
\* getTasks(sources, options) for one source, a string.  In
\* { ...nodeSassOptions, ...task } the data and file of the request are
\* among nodeSassOptions, and the one of the two that task sets wins
getTask(source, options) ==
    With(OrElse(options.output, options.outFile), LAMBDA outFile :
    With(IF Truthy(outFile) THEN getOutFile(source, outFile) ELSE Ok(Undefined),
         LAMBDA out :
        IF ~out.ok THEN out
        ELSE With(IF Truthy(options.sourceMap)
                     THEN getSourceMap(out.v, options.sourceMap)
                  ELSE Ok(Undefined),
                  LAMBDA map :
                    IF ~map.ok THEN map
                    ELSE With(isFile(source), LAMBDA asFile :
                            Ok([data |-> IF asFile THEN options.data ELSE source,
                                file |-> IF asFile THEN source ELSE options.file,
                                outFile |-> out.v,
                                sourceMap |-> map.v,
                                rest |-> options.rest])))))

\* arrayify(getTasks(sources, options)): sources is a string or an array of
\* strings; the first source whose task cannot be built throws
getTasks(sources, options) ==
    With(arrayify(sources), LAMBDA list :
    With([i \in 1..Len(list) |-> getTask(list[i], options)], LAMBDA each :
    With({i \in 1..Len(list) : ~each[i].ok}, LAMBDA failed :
        IF failed # {}
            THEN each[CHOOSE i \in failed : \A j \in failed : i <= j]
        ELSE Ok([i \in 1..Len(list) |-> each[i].v]))))

\* a lookup that sees the last entry only, so that a group is found again
\* only by the task right after it: a fault C3 has to detect
IndexOfLast(list, v) ==
    IF list # <<>> /\ list[Len(list)] = v THEN Len(list) ELSE 0

\* Array.prototype.indexOf under ===, 0 when absent (positions count from 1)
IndexOf(list, v) ==
    IF \E i \in 1..Len(list) : list[i] = v
        THEN CHOOSE i \in 1..Len(list) : list[i] = v /\ \A j \in 1..(i - 1) : list[j] # v
    ELSE 0

\* Array.prototype.join('\n'): undefined joins as the empty string
JoinLines(values) ==
    With([i \in 1..Len(values) |->
            IF values[i].kind = "undefined" THEN <<>> ELSE ToText(values[i])],
         LAMBDA lines : JoinWith(lines, <<"\n">>))

\* the property the reducer collects: data when the first task has a truthy
\* data, file otherwise
SourceTypeOf(tasks) == IF Truthy(tasks[1].data) THEN "data" ELSE "file"

RECURSIVE GroupTasksLastWins(_, _, _, _)
\* a group that takes the properties of the last task pushed to it instead
\* of keeping those of its first: a fault C26 has to detect
GroupTasksLastWins(tasks, sourceType, outFileLookup, reducedTasks) ==
    IF tasks = <<>> THEN reducedTasks
    ELSE With(Head(tasks), LAMBDA task :
         With(Tail(tasks), LAMBDA rest :
         With(IndexOf(outFileLookup, task.outFile), LAMBDA index :
            IF index = 0
                THEN With(Append(outFileLookup, task.outFile), LAMBDA lookup :
                     With(Append(reducedTasks,
                                 [task |-> task, sources |-> arrayify(task[sourceType])]),
                          LAMBDA reduced :
                            GroupTasksLastWins(rest, sourceType, lookup, reduced)))
            ELSE With([reducedTasks EXCEPT
                            ![index] = [task |-> task,
                                        sources |-> Append(@.sources, task[sourceType])]],
                      LAMBDA reduced :
                        GroupTasksLastWins(rest, sourceType, outFileLookup, reduced)))))

RECURSIVE GroupTasks(_, _, _, _)
\* the forEach of reduceTasksByOutFile: a group per outFile in the order of
\* first occurrence, holding a copy of its first task and the sources
\* collected for it (an array source opens a group with its items, and is
\* pushed to an open group as one item)
GroupTasks(tasks, sourceType, outFileLookup, reducedTasks) ==
    IF tasks = <<>> THEN reducedTasks
    ELSE With(Head(tasks), LAMBDA task :
         With(Tail(tasks), LAMBDA rest :
         With(IndexOf(outFileLookup, task.outFile), LAMBDA index :
            IF index = 0
                THEN With(Append(outFileLookup, task.outFile), LAMBDA lookup :
                     With(Append(reducedTasks,
                                 [task |-> task, sources |-> arrayify(task[sourceType])]),
                          LAMBDA reduced :
                            GroupTasks(rest, sourceType, lookup, reduced)))
            ELSE With([reducedTasks EXCEPT
                            ![index].sources = Append(@, task[sourceType])],
                      LAMBDA reduced :
                        GroupTasks(rest, sourceType, outFileLookup, reduced)))))

\* the map of reduceTasksByOutFile on one group
ConcatGroup(group, sourceType) ==
    IF Len(group.sources) = 1
        THEN Ok([group.task EXCEPT ![sourceType] = group.sources[1]])
    ELSE IF sourceType = "data"
        THEN Ok([group.task EXCEPT !.file = Undefined,
                                   !.data = Str(JoinLines(group.sources))])
    ELSE With(joinSourceFiles(group.sources), LAMBDA joined :
            IF joined.ok
                THEN Ok([group.task EXCEPT !.file = Undefined, !.data = Str(joined.v)])
            ELSE joined)

\* reduceTasksByOutFile(tasks): tasks is not empty
reduceTasksByOutFile(tasks) ==
    With(SourceTypeOf(tasks), LAMBDA sourceType :
    With(GroupTasks(tasks, sourceType, <<>>, <<>>), LAMBDA groups :
    With([i \in 1..Len(groups) |-> ConcatGroup(groups[i], sourceType)], LAMBDA mapped :
    With({i \in 1..Len(groups) : ~mapped[i].ok}, LAMBDA failed :
        IF failed # {}
            THEN mapped[CHOOSE i \in failed : \A j \in failed : i <= j]
        ELSE Ok([i \in 1..Len(groups) |-> mapped[i].v])))))

\* validateOptions without its last check, of a sourceMap that has no
\* destination: a fault C8 has to detect
validateOptionsInputOnly(options) ==
    IF options.kind = "null" THEN Throw("TypeError")
    ELSE IF options.kind # "object" THEN Throw("InvalidOptions")
    ELSE IF ~Truthy(options.file) /\ ~Truthy(options.data) THEN Throw("NoInput")
    ELSE Ok(options)

\* validateOptions(options); typeof null is 'object', and destructuring null
\* throws a TypeError
validateOptions(options) ==
    IF options.kind = "null" THEN Throw("TypeError")
    ELSE IF options.kind # "object" THEN Throw("InvalidOptions")
    ELSE IF ~Truthy(options.file) /\ ~Truthy(options.data) THEN Throw("NoInput")
    ELSE IF Truthy(options.sourceMap) /\ ~Truthy(options.output) /\ ~Truthy(options.outFile)
        THEN Throw("NoOutput")
    ELSE Ok(options)

(***************************************************************************)
(* The environment: the glob matcher, the compiler and the file system.    *)
(***************************************************************************)
\* the source files of the fixture and the patterns that match them
FileA == <<"s", "/", "a", ".", "s", "c", "s", "s">>
FileB == <<"t", "/", "b", ".", "s", "a", "s", "s">>
NoExt == <<"s", "/", "n">>
GlobAll == <<"*", "/", "*", ".", "s", "*">>
GlobNone == <<"e", "/", "*", ".", "s", "c", "s", "s">>

\* no entry is a pattern: a fault C15 has to detect
hasMagicNever(pattern) == FALSE

\* glob.hasMagic(pattern)
hasMagic(pattern) == \E i \in 1..Len(pattern) : pattern[i] \in {"*", "?", "[", "{"}

\* glob.sync(pattern) and the matches glob(pattern, cb) calls back with: the
\* matcher's ordered list for the fixture
GlobMatches(pattern) ==
    IF pattern = GlobAll THEN <<Str(FileA), Str(FileB)>> ELSE <<>>

RECURSIVE CollectSources(_)
\* the loop of getSourceFiles and the reduce of getSourceFilesSync over the
\* entries: a pattern contributes its matches, any other entry itself
CollectSources(entries) ==
    IF entries = <<>> THEN <<>>
    ELSE (IF hasMagic(ToText(Head(entries))) THEN GlobMatches(ToText(Head(entries)))
          ELSE <<Head(entries)>>) \o CollectSources(Tail(entries))

\* getSourceFiles(file) and getSourceFilesSync(file)
getSourceFiles(file) == Arr(CollectSources(arrayify(file)))

\* how many entries of the file option go to the matcher
GlobCount(file) ==
    Cardinality({i \in 1..Len(arrayify(file)) : hasMagic(ToText(arrayify(file)[i]))})

\* the principal source node-sass compiles: data when it is given, else file
InputOf(task) == IF Truthy(task.data) THEN task.data ELSE task.file

\* the result of sass.render / sass.renderSync for a task that compiles: the
\* css of its input, and a map when the task names a sourceMap
ResultOf(task) ==
    [css |-> [css |-> InputOf(task)],
     map |-> IF Truthy(task.sourceMap) THEN [map |-> InputOf(task)] ELSE Undefined]

(***************************************************************************)
(* The requests of the model.                                              *)
(***************************************************************************)
DataA == <<"a", "{", "}">>
DataB == <<"b", "{", "}">>
\* minified css that ends in a class rule:  .c{}  and  .e{}
DataDot == <<".", "c", "{", "}">>
DataDot2 == <<".", "e", "{", "}">>

OutDir == <<"d">>
OutCss == <<"d", "/", "o", ".", "c", "s", "s">>
OutFileScss == <<"q", "/", "p", ".", "s", "c", "s", "s">>
OutFileTxt == <<"q", "/", "p", ".", "t", "x", "t">>
MapDir == <<"m">>
MapFile == <<"m", "/", "x", ".", "m", "a", "p">>

\* the arrays of at most n items of S
ArraysUpTo(S, n) == UNION {[1..k -> S] : k \in 0..n}

DataStrings == {Str(DataA), Str(DataB), Str(<<>>), Str(DataDot), Str(DataDot2)}
FileStrings == {Str(FileA), Str(FileB), Str(NoExt), Str(GlobAll), Str(GlobNone)}

SourceSpecs ==
    {[data |-> d, file |-> Undefined] :
        d \in DataStrings \cup {Arr(a) : a \in ArraysUpTo(DataStrings, MaxEntries)}}
    \cup {[data |-> Undefined, file |-> f] :
        f \in {Undefined} \cup FileStrings
              \cup {Arr(a) : a \in ArraysUpTo(FileStrings, MaxEntries)}}
    \cup {[data |-> d, file |-> f] :
        d \in {Str(DataA), Str(<<>>), Arr(<<Str(DataA), Str(DataB)>>)},
        f \in {Str(FileA), Str(GlobAll)}}

\* output and outFile: either alone, neither, and both
DestinationSpecs ==
    {[output |-> o, outFile |-> Undefined] :
        o \in {Undefined, Str(OutDir), Str(OutCss), Fn("under"), Fn("toDir"),
               Fn("toCss")}}
    \cup {[output |-> o, outFile |-> Str(OutFileScss)] :
        o \in {Undefined, Str(OutDir), Str(OutCss)}}
    \cup {[output |-> Undefined, outFile |-> f] : f \in {Str(OutDir), Str(OutFileTxt)}}
SourceMapSpecs == {Undefined, Bool(TRUE), Str(MapDir), Str(MapFile), Fn("mapTrue")}

\* every other option of a request goes to node-sass untouched
Rest == [outputStyle |-> "compressed"]

Requests ==
    {[kind |-> "object", data |-> s.data, file |-> s.file, output |-> d.output,
      outFile |-> d.outFile, sourceMap |-> m, rest |-> Rest] :
        s \in SourceSpecs, d \in DestinationSpecs, m \in SourceMapSpecs}
    \cup {[kind |-> "string", s |-> <<"f", "o", "o">>], [kind |-> "null"]}

(***************************************************************************)
(* One call of render (mode "async") or renderSync (mode "sync").          *)
(***************************************************************************)
VARIABLES
    mode,       \* "sync": renderSync(options); "async": render(options, callback)
    callback,   \* whether render was given a callback function
    options,    \* the first argument of the call
    pc,         \* where the call is
    sources,    \* const sources
    built,      \* arrayify(getTasks(sources, options))
    tasks,      \* let tasks, as handed to the compiler
    compiled,   \* const compiled, item by item
    writes,     \* the writeFile / writeFileSync calls of the call
    disk,       \* the files written so far: a set of [path, content]
    log,        \* the calls to the matcher, the compiler and the file system whose
                \* order the code fixes
    cbCalls,    \* the calls of the callback
    outcome,    \* what the call returned (or resolved with) or threw (rejected with)
    failedAt    \* the step that threw, "none" while none has

vars == <<mode, callback, options, pc, sources, built, tasks, compiled, writes, disk,
          log, cbCalls, outcome, failedAt>>

Pending == [state |-> "pending"]

Init ==
    /\ mode \in {"sync", "async"}
    /\ callback \in BOOLEAN
    /\ mode = "sync" => ~callback
    /\ options \in Requests
    /\ pc = "validate"
    /\ sources = Undefined
    /\ built = <<>>
    /\ tasks = <<>>
    /\ compiled = <<>>
    /\ writes = <<>>
    /\ disk = {}
    /\ log = <<>>
    /\ cbCalls = <<>>
    /\ outcome = [kind |-> "none"]
    /\ failedAt = "none"

\* the catch of render, and an exception leaving renderSync
Fail(err) ==
    /\ pc' = "done"
    /\ failedAt' = pc
    /\ IF mode = "async" /\ callback
          THEN /\ cbCalls' = Append(cbCalls, [err |-> err, results |-> Undefined])
               /\ outcome' = [kind |-> "value", v |-> Undefined]
       ELSE /\ cbCalls' = cbCalls
            /\ outcome' = [kind |-> "error", err |-> err]

\* validateOptions(options)
Validate ==
    /\ pc = "validate"
    /\ \E checked \in {validateOptions(options)} :
           IF checked.ok
              THEN /\ pc' = "sources"
                   /\ UNCHANGED <<cbCalls, outcome, failedAt>>
           ELSE Fail(checked.err)
    /\ UNCHANGED <<mode, callback, options, sources, built, tasks, compiled, writes,
                   disk, log>>

\* const sources = file ? getSourceFiles(file, globOptions) : data, the file
\* option favoured over data: a fault C21 has to detect
GetSourcesFileFirst ==
    /\ pc = "sources"
    /\ \/ /\ IF ~Truthy(options.file)
                THEN /\ sources' = options.data
                     /\ log' = log
             ELSE /\ sources' = getSourceFiles(options.file)
                  /\ log' = log \o [i \in 1..GlobCount(options.file) |-> [op |-> "glob"]]
          /\ pc' = "tasks"
          /\ UNCHANGED <<cbCalls, outcome, failedAt>>
       \/ /\ Truthy(options.file)
          /\ GlobCount(options.file) > 0
          /\ log' = Append(log, [op |-> "glob"])
          /\ Fail("GlobError")
          /\ sources' = sources
    /\ UNCHANGED <<mode, callback, options, built, tasks, compiled, writes, disk>>

\* const sources = data || getSourceFiles(file, globOptions); the matcher
\* may fail on a pattern (glob.sync throws, glob calls back with an error)
GetSources ==
    /\ pc = "sources"
    /\ \/ /\ IF Truthy(options.data)
                THEN /\ sources' = options.data
                     /\ log' = log
             ELSE /\ sources' = getSourceFiles(options.file)
                  /\ log' = log \o [i \in 1..GlobCount(options.file) |-> [op |-> "glob"]]
          /\ pc' = "tasks"
          /\ UNCHANGED <<cbCalls, outcome, failedAt>>
       \/ /\ ~Truthy(options.data)
          /\ GlobCount(options.file) > 0
          /\ log' = Append(log, [op |-> "glob"])
          /\ Fail("GlobError")
          /\ sources' = sources
    /\ UNCHANGED <<mode, callback, options, built, tasks, compiled, writes, disk>>

\* if (tasks.length && tasks[0].outFile), which lets a call without tasks go
\* on: a fault C30 has to detect
BuildTasksEmptyAllowed ==
    /\ pc = "tasks"
    /\ \E got \in {getTasks(sources, options)} :
           IF ~got.ok
              THEN Fail(got.err) /\ UNCHANGED <<built, tasks>>
           ELSE IF got.v = <<>>
              THEN /\ built' = built
                   /\ tasks' = tasks
                   /\ pc' = "marshal"
                   /\ UNCHANGED <<cbCalls, outcome, failedAt>>
           ELSE /\ built' = got.v
                /\ IF Truthy(got.v[1].outFile)
                      THEN pc' = "reduce" /\ tasks' = tasks
                   ELSE pc' = "compile" /\ tasks' = got.v
                /\ UNCHANGED <<cbCalls, outcome, failedAt>>
    /\ UNCHANGED <<mode, callback, options, sources, compiled, writes, disk, log>>

\* let tasks = arrayify(getTasks(sources, options)); if (tasks[0].outFile) ...
\* (reading outFile of the first task of an empty list throws a TypeError)
BuildTasks ==
    /\ pc = "tasks"
    /\ \E got \in {getTasks(sources, options)} :
           IF ~got.ok
              THEN Fail(got.err) /\ UNCHANGED <<built, tasks>>
           ELSE IF got.v = <<>>
              THEN Fail("TypeError") /\ UNCHANGED <<built, tasks>>
           ELSE /\ built' = got.v
                /\ IF Truthy(got.v[1].outFile)
                      THEN pc' = "reduce" /\ tasks' = tasks
                   ELSE pc' = "compile" /\ tasks' = got.v
                /\ UNCHANGED <<cbCalls, outcome, failedAt>>
    /\ UNCHANGED <<mode, callback, options, sources, compiled, writes, disk, log>>

\* tasks = reduceTasksByOutFile(tasks)
ReduceTasks ==
    /\ pc = "reduce"
    /\ \E reduced \in {reduceTasksByOutFile(built)} :
           IF reduced.ok
              THEN /\ tasks' = reduced.v
                   /\ pc' = "compile"
                   /\ UNCHANGED <<cbCalls, outcome, failedAt>>
           ELSE Fail(reduced.err) /\ tasks' = tasks
    /\ UNCHANGED <<mode, callback, options, sources, built, compiled, writes, disk, log>>

\* if (output || outFile): a fault C6 has to detect
AfterCompileAnyDestination ==
    IF Truthy(OrElse(options.output, options.outFile)) THEN "write" ELSE "marshal"

\* where the call goes once every task is compiled: if (output) ...
AfterCompile == IF Truthy(options.output) THEN "write" ELSE "marshal"

\* every task compiled before the error of the first failure is thrown: a
\* fault C18 has to detect
CompileSyncAll ==
    /\ pc = "compile"
    /\ mode = "sync"
    /\ LET i == Len(compiled) + 1
       IN  \/ /\ log' = Append(log, [op |-> "compile", task |-> i])
              /\ compiled' = Append(compiled, ResultOf(tasks[i]))
              /\ pc' = IF i = Len(tasks) THEN AfterCompile ELSE pc
              /\ UNCHANGED <<cbCalls, outcome, failedAt>>
           \/ /\ log' = log \o [j \in 1..(Len(tasks) + 1 - i) |->
                                    [op |-> "compile", task |-> i + j - 1]]
              /\ Fail("CompileError")
              /\ compiled' = compiled
    /\ UNCHANGED <<mode, callback, options, sources, built, tasks, writes, disk>>

\* compileSync(task) for the next task of tasks.map: sass.renderSync returns a
\* result or throws
CompileSync ==
    /\ pc = "compile"
    /\ mode = "sync"
    /\ LET i == Len(compiled) + 1
       IN  /\ log' = Append(log, [op |-> "compile", task |-> i])
           /\ \/ /\ compiled' = Append(compiled, ResultOf(tasks[i]))
                 /\ pc' = IF i = Len(tasks) THEN AfterCompile ELSE pc
                 /\ UNCHANGED <<cbCalls, outcome, failedAt>>
              \/ /\ Fail("CompileError")
                 /\ compiled' = compiled
    /\ UNCHANGED <<mode, callback, options, sources, built, tasks, writes, disk>>

\* tasks.map(task => compile(task)): sass.render is called for every task, in
\* task order, before any of them completes
SubmitCompiles ==
    /\ pc = "compile"
    /\ mode = "async"
    /\ compiled' = [i \in 1..Len(tasks) |-> Pending]
    /\ log' = log \o [i \in 1..Len(tasks) |-> [op |-> "compile", task |-> i]]
    /\ pc' = "compiling"
    /\ UNCHANGED <<mode, callback, options, sources, built, tasks, writes, disk,
                   cbCalls, outcome, failedAt>>

\* the results kept in the reverse of the task order, that of task i at the
\* place of the i-th task from the end: a fault C17 has to detect
CompileSettleReversed(i) ==
    /\ pc = "compiling"
    /\ compiled[i] = Pending
    /\ \/ /\ compiled' = [compiled EXCEPT ![i] = ResultOf(tasks[Len(tasks) + 1 - i])]
          /\ pc' = IF \A j \in 1..Len(compiled) : j # i => compiled[j] # Pending
                      THEN AfterCompile ELSE pc
          /\ UNCHANGED <<cbCalls, outcome, failedAt>>
       \/ /\ Fail("CompileError")
          /\ compiled' = compiled
    /\ UNCHANGED <<mode, callback, options, sources, built, tasks, writes, disk, log>>

\* a render that goes on to the writes at the first result, without waiting
\* for the other compilations: a fault C29 has to detect
CompileSettleEager(i) ==
    /\ pc = "compiling"
    /\ compiled[i] = Pending
    /\ \/ /\ compiled' = [compiled EXCEPT ![i] = ResultOf(tasks[i])]
          /\ pc' = AfterCompile
          /\ UNCHANGED <<cbCalls, outcome, failedAt>>
       \/ /\ Fail("CompileError")
          /\ compiled' = compiled
    /\ UNCHANGED <<mode, callback, options, sources, built, tasks, writes, disk, log>>

\* the callback of sass.render for task i: its promise resolves with the
\* result or rejects, and Promise.all rejects on the first rejection
CompileSettle(i) ==
    /\ pc = "compiling"
    /\ compiled[i] = Pending
    /\ \/ /\ compiled' = [compiled EXCEPT ![i] = ResultOf(tasks[i])]
          /\ pc' = IF \A j \in 1..Len(compiled) : j # i => compiled[j] # Pending
                      THEN AfterCompile ELSE pc
          /\ UNCHANGED <<cbCalls, outcome, failedAt>>
       \/ /\ Fail("CompileError")
          /\ compiled' = compiled
    /\ UNCHANGED <<mode, callback, options, sources, built, tasks, writes, disk, log>>

RECURSIVE WriteOps(_, _, _)
\* the writes of a call, in the order of compiled.forEach / compiled.map: for
\* each task its css to task.outFile and, if the result has a map, the map to
\* task.sourceMap
WriteOps(ts, results, i) ==
    IF i > Len(ts) THEN <<>>
    ELSE <<[task |-> i, what |-> "css", path |-> ts[i].outFile,
            content |-> results[i].css, state |-> "pending"]>>
         \o (IF results[i].map # Undefined
                THEN <<[task |-> i, what |-> "map", path |-> ts[i].sourceMap,
                        content |-> results[i].map, state |-> "pending"]>>
             ELSE <<>>)
         \o WriteOps(ts, results, i + 1)

\* fs.writeFile / fs.writeFileSync: the file at path now holds content
FileWritten(files, path, content) ==
    {f \in files : f.path # path} \cup {[path |-> path, content |-> content]}

\* the writes of compiled.forEach taken from the last to the first: a fault
\* C24 has to detect
WriteSyncLastFirst ==
    /\ pc = "write"
    /\ mode = "sync"
    /\ \E ops \in {WriteOps(tasks, compiled, 1)} : \E w \in {ops[Len(ops) - Len(writes)]} :
           \/ /\ writes' = Append(writes, [w EXCEPT !.state = "written"])
              /\ disk' = FileWritten(disk, w.path, w.content)
              /\ log' = Append(log, [op |-> "write", task |-> w.task, what |-> w.what])
              /\ pc' = IF Len(writes) + 1 = Len(ops) THEN "marshal" ELSE pc
              /\ UNCHANGED <<cbCalls, outcome, failedAt>>
           \/ /\ writes' = Append(writes, [w EXCEPT !.state = "failed"])
              /\ Fail("StorageError")
              /\ UNCHANGED <<disk, log>>
    /\ UNCHANGED <<mode, callback, options, sources, built, tasks, compiled>>

\* writeFileSync(content, filePath) for the next write of compiled.forEach:
\* ensureDirSync or writeFileSync may throw
WriteSync ==
    /\ pc = "write"
    /\ mode = "sync"
    /\ \E ops \in {WriteOps(tasks, compiled, 1)} : \E w \in {ops[Len(writes) + 1]} :
           \/ /\ writes' = Append(writes, [w EXCEPT !.state = "written"])
              /\ disk' = FileWritten(disk, w.path, w.content)
              /\ log' = Append(log, [op |-> "write", task |-> w.task, what |-> w.what])
              /\ pc' = IF Len(writes) + 1 = Len(ops) THEN "marshal" ELSE pc
              /\ UNCHANGED <<cbCalls, outcome, failedAt>>
           \/ /\ writes' = Append(writes, [w EXCEPT !.state = "failed"])
              /\ Fail("StorageError")
              /\ UNCHANGED <<disk, log>>
    /\ UNCHANGED <<mode, callback, options, sources, built, tasks, compiled>>

\* compiled.map(...): writeFile is called for every css and map before any
\* of the writes completes
StartWrites ==
    /\ pc = "write"
    /\ mode = "async"
    /\ writes' = WriteOps(tasks, compiled, 1)
    /\ pc' = "writing"
    /\ UNCHANGED <<mode, callback, options, sources, built, tasks, compiled, disk, log,
                   cbCalls, outcome, failedAt>>

\* one writeFile(content, filePath) runs to its end.  ensureDir succeeds and
\* fs.writeFile writes the file ("written") or rejects ("failed"), or
\* ensureDir rejects, which the catch of writeFile turns into a promise
\* nobody awaits, so that writeFile resolves ("swallowed").  The first
\* rejection rejects the Promise.all of render; the writes still under way
\* go on after that.
WriteSettle(k) ==
    /\ pc \in {"writing", "done"}
    /\ k \in 1..Len(writes)
    /\ writes[k].state = "pending"
    /\ \E result \in {"written", "swallowed", "failed"} :
        /\ writes' = [writes EXCEPT ![k].state = result]
        /\ disk' = IF result = "written"
                      THEN FileWritten(disk, writes[k].path, writes[k].content)
                   ELSE disk
        /\ IF pc = "writing" /\ result = "failed"
              THEN Fail("StorageError")
           ELSE /\ pc' = IF /\ pc = "writing"
                            /\ \A j \in 1..Len(writes) :
                                  j # k => writes[j].state # "pending"
                               THEN "marshal" ELSE pc
                /\ UNCHANGED <<cbCalls, outcome, failedAt>>
    /\ UNCHANGED <<mode, callback, options, sources, built, tasks, compiled, log>>

\* const results = marshalArray(compiled); callback(null, results); return results
Marshal ==
    /\ pc = "marshal"
    /\ \E results \in {marshalArray(compiled)} :
           /\ outcome' = [kind |-> "value", v |-> results]
           /\ cbCalls' = IF mode = "async" /\ callback
                            THEN Append(cbCalls, [err |-> "null", results |-> results])
                         ELSE cbCalls
    /\ pc' = "done"
    /\ UNCHANGED <<mode, callback, options, sources, built, tasks, compiled, writes,
                   disk, log, failedAt>>

Next ==
    \/ Validate
    \/ GetSources
    \/ BuildTasks
    \/ ReduceTasks
    \/ CompileSync
    \/ SubmitCompiles
    \/ \E i \in 1..Len(compiled) : CompileSettle(i)
    \/ WriteSync
    \/ StartWrites
    \/ \E k \in 1..Len(writes) : WriteSettle(k)
    \/ Marshal

Spec == Init /\ [][Next]_vars

(***************************************************************************)
(* The reducer on its own.  The callbacks of a request need not be         *)
(* functions of their argument alone (a sourceMap callback may number its  *)
(* files), so the tasks of one outFile may differ in their sourceMap; the   *)
(* other options are copies of the request's and the same in every task.   *)
(***************************************************************************)
ReducerOutFiles == {Str(PathResolve(OutCss)), Str(PathResolve(OutFileScss))}
ReducerSourceMaps == {Undefined, Str(PathResolve(MapFile)), Str(PathResolve(MapFile \o MapFile))}

\* the data tasks and the file tasks getTasks can build for such a request
ReducerTasks(sourceType) ==
    {[data |-> IF sourceType = "data" THEN s ELSE Undefined,
      file |-> IF sourceType = "file" THEN s ELSE Undefined,
      outFile |-> o, sourceMap |-> m, rest |-> Rest] :
        s \in IF sourceType = "data" THEN {Str(DataA), Str(DataB)}
              ELSE {Str(FileA), Str(FileB)},
        o \in ReducerOutFiles, m \in ReducerSourceMaps}

\* render and renderSync at `tasks = reduceTasksByOutFile(tasks)`, with a
\* list of one to MaxEntries tasks of one kind
InitReduce ==
    /\ mode \in {"sync", "async"}
    /\ callback = FALSE
    /\ options = [kind |-> "object", data |-> Undefined, file |-> Str(GlobAll),
                  output |-> Undefined, outFile |-> Fn("under"),
                  sourceMap |-> Fn("mapTrue"), rest |-> Rest]
    /\ pc = "reduce"
    /\ sources = Undefined
    /\ built \in UNION {[1..n -> ReducerTasks(sourceType)] :
                            n \in 1..MaxEntries, sourceType \in {"data", "file"}}
    /\ tasks = <<>>
    /\ compiled = <<>>
    /\ writes = <<>>
    /\ disk = {}
    /\ log = <<>>
    /\ cbCalls = <<>>
    /\ outcome = [kind |-> "none"]
    /\ failedAt = "none"

NextReduce == ReduceTasks

SpecReduce == InitReduce /\ [][NextReduce]_vars

(***************************************************************************)
(* Properties.                                                             *)
(***************************************************************************)
\* the sources of the call, one per task built
SourceList == arrayify(sources)

\* task i is a data task: an item of the request's data that getTasks made
\* the data of the task; or a file task: a file of the request that getTasks
\* made the file of the task
IsDataTask(i) == Truthy(options.data) /\ ~isFile(SourceList[i])
IsFileTask(i) == ~Truthy(options.data) /\ isFile(SourceList[i])

\* the tasks built for the outFile o
Members(o) == {i \in 1..Len(built) : built[i].outFile = o}

\* reduceTasksByOutFile was called, and it has returned or thrown
ReduceThrew == failedAt = "reduce"
Reduced == built # <<>> /\ Truthy(built[1].outFile) /\ pc # "reduce" /\ ~ReduceThrew

\* the call is over and has returned its results
Succeeded == pc = "done" /\ failedAt = "none"

\* the call is over and has failed with the error e: renderSync throws it,
\* render rejects with it or, given a callback, calls it with the error
Raised(e) ==
    /\ pc = "done"
    /\ failedAt # "none"
    /\ IF mode = "async" /\ callback
          THEN cbCalls = <<[err |-> e, results |-> Undefined]>>
       ELSE outcome = [kind |-> "error", err |-> e]

\* nothing was handed to the matcher, the compiler or the file system
NothingDone == log = <<>> /\ compiled = <<>> /\ writes = <<>> /\ disk = {}

\* C1, as claimed: whenever two or more data tasks of the list handed to
\* reduceTasksByOutFile have the same outFile, the reducer returns exactly one
\* task for that outFile, and its data is the data strings of those tasks in
\* task order, joined by a newline.
C1_DataMerge ==
    (Reduced \/ ReduceThrew) =>
        \A o \in {built[i].outFile : i \in 1..Len(built)} :
            LET members == Sorted({i \in Members(o) : IsDataTask(i)})
            IN  Len(members) >= 2 =>
                    /\ Reduced
                    /\ Cardinality({j \in 1..Len(tasks) : tasks[j].outFile = o}) = 1
                    /\ \A j \in 1..Len(tasks) :
                          tasks[j].outFile = o =>
                              tasks[j].data =
                                  Str(JoinWith([k \in 1..Len(members) |->
                                                    ToText(built[members[k]].data)],
                                                <<"\n">>))

\* C2, as claimed: whenever two or more file tasks of the list handed to the
\* reducer have the same outFile, the reducer returns exactly one task for
\* that outFile; the task has no file, and its data is the statements
\* @import '<absolute path>'; of those tasks' files in task order, joined by a
\* newline.
C2_FileMerge ==
    (Reduced \/ ReduceThrew) =>
        \A o \in {built[i].outFile : i \in 1..Len(built)} :
            LET members == Sorted({i \in Members(o) : IsFileTask(i)})
            IN  Len(members) >= 2 =>
                    /\ Reduced
                    /\ Cardinality({j \in 1..Len(tasks) : tasks[j].outFile = o}) = 1
                    /\ \A j \in 1..Len(tasks) :
                          tasks[j].outFile = o =>
                              /\ tasks[j].file = Undefined
                              /\ tasks[j].data =
                                  Str(JoinWith([k \in 1..Len(members) |->
                                        <<"@", "i", "m", "p", "o", "r", "t", " ", "'">>
                                        \o PathResolve(ToText(built[members[k]].file))
                                        \o <<"'", ";">>],
                                      <<"\n">>))

\* the outFiles of a task list, and the items of a list without the repeats
OutFilesOf(ts) == [i \in 1..Len(ts) |-> ts[i].outFile]
FirstOccurrences(list) ==
    LET firsts == Sorted({i \in 1..Len(list) : \A j \in 1..(i - 1) : list[j] # list[i]})
    IN  [k \in 1..Len(firsts) |-> list[firsts[k]]]

\* C3: the list reduceTasksByOutFile returns has exactly one task for each
\* distinct outFile of the list it was given, so its outFiles are pairwise
\* distinct, and they are in the order in which each outFile first occurs in
\* the list it was given.
C3_Grouping ==
    Reduced =>
        /\ OutFilesOf(tasks) = FirstOccurrences(OutFilesOf(built))
        /\ \A i, j \in 1..Len(tasks) : i # j => tasks[i].outFile # tasks[j].outFile

\* three tasks were reduced to two groups, the first and the third task in
\* the first group
C3_Witness ==
    /\ Reduced
    /\ Len(built) = 3
    /\ built[1].outFile = built[3].outFile
    /\ built[1].outFile # built[2].outFile
    /\ Len(tasks) = 2

\* the property of task i that getTasks set to the source of the task
ContentField(i) == IF isFile(SourceList[i]) THEN "file" ELSE "data"

\* C4, as claimed: a task that shares its outFile with no other task of the
\* list is returned by the reducer with the content it was given (its file
\* if its source is a file, its data if its source is data) and with the
\* outFile, the sourceMap and the other options it was given.
C4_SingletonPassthrough ==
    Reduced =>
        \A i \in 1..Len(built) :
            Members(built[i].outFile) = {i} =>
                \E j \in 1..Len(tasks) :
                    /\ tasks[j][ContentField(i)] = built[i][ContentField(i)]
                    /\ tasks[j].outFile = built[i].outFile
                    /\ tasks[j].sourceMap = built[i].sourceMap
                    /\ tasks[j].rest = built[i].rest

\* no two tasks built have the same outFile
NoSharedOutput ==
    \A i, j \in 1..Len(built) :
        i # j /\ Truthy(built[i].outFile) => built[i].outFile # built[j].outFile

\* C5: a call that succeeds on one source returns (resolves with, calls back
\* with) the result of its one task, not an array; a call that succeeds on
\* two or more sources no two of which have the same outFile has a task per
\* source and returns an array with the result of task i at position i.
C5_Marshaling ==
    Succeeded =>
        /\ outcome.kind = "value"
        /\ callback => cbCalls = <<[err |-> "null", results |-> outcome.v]>>
        /\ Len(SourceList) = 1 =>
              /\ Len(tasks) = 1
              /\ outcome.v = ResultOf(tasks[1])
        /\ (Len(SourceList) >= 2 /\ NoSharedOutput) =>
              /\ Len(tasks) = Len(SourceList)
              /\ outcome.v = Arr([i \in 1..Len(tasks) |-> ResultOf(tasks[i])])

\* render has resolved with an array of the two different results of its two
\* tasks
C5_Witness ==
    /\ Succeeded
    /\ mode = "async"
    /\ Len(SourceList) = 2
    /\ NoSharedOutput
    /\ outcome.v = Arr(<<ResultOf(tasks[1]), ResultOf(tasks[2])>>)
    /\ ResultOf(tasks[1]) # ResultOf(tasks[2])

\* the request has an output
HasOutput == options.kind = "object" /\ Truthy(options.output)

\* C6: writeFile / writeFileSync is called in a call only if the request has
\* an output, and no file is written otherwise, whatever its outFile and
\* sourceMap; a call with an output that succeeds has called it once for each
\* task with the css of the task's result and the task's outFile, once for
\* each task whose result has a map with that map and the task's sourceMap,
\* and for nothing else; what is on disk was put there by these calls, and in
\* renderSync every one of them has written its file.
C6_PersistenceByOutput ==
    /\ ~HasOutput => writes = <<>> /\ disk = {}
    /\ \A f \in disk :
          \E k \in 1..Len(writes) :
              /\ writes[k].state = "written"
              /\ writes[k].path = f.path
              /\ writes[k].content = f.content
    /\ (Succeeded /\ HasOutput) =>
          /\ \A i \in 1..Len(tasks) :
                /\ Cardinality({k \in 1..Len(writes) :
                        /\ writes[k].task = i
                        /\ writes[k].what = "css"
                        /\ writes[k].path = tasks[i].outFile
                        /\ writes[k].content = compiled[i].css}) = 1
                /\ Cardinality({k \in 1..Len(writes) :
                        /\ writes[k].task = i
                        /\ writes[k].what = "map"
                        /\ writes[k].path = tasks[i].sourceMap
                        /\ writes[k].content = compiled[i].map})
                    = IF compiled[i].map # Undefined THEN 1 ELSE 0
          /\ Len(writes) = Len(tasks)
                + Cardinality({i \in 1..Len(tasks) : compiled[i].map # Undefined})
          /\ mode = "sync" => \A k \in 1..Len(writes) : writes[k].state = "written"

\* a call with an output has succeeded with the css of a task on disk at the
\* task's outFile and its map at the task's sourceMap
C6_Witness ==
    /\ Succeeded
    /\ Truthy(options.output)
    /\ \E i \in 1..Len(tasks) :
          /\ compiled[i].map # Undefined
          /\ [path |-> tasks[i].outFile, content |-> compiled[i].css] \in disk
          /\ [path |-> tasks[i].sourceMap, content |-> compiled[i].map] \in disk

\* C7: when the tasks of a call have been built, the tasks built for a request with an output are the tasks built for
\* the same request without its outFile, so with both given the outFile of
\* every task comes from output alone; the tasks built for a request with an
\* outFile and no output have the outFiles of the tasks built for the request
\* that gives the same value as output.
C7_OutputWins ==
    (built # <<>> /\ compiled = <<>> /\ pc \in {"reduce", "compile"}) =>
        /\ Truthy(options.output) =>
              Ok(built) = getTasks(sources, [options EXCEPT !.outFile = Undefined])
        /\ (~Truthy(options.output) /\ Truthy(options.outFile)) =>
              \E other \in {getTasks(sources, [options EXCEPT !.output = options.outFile,
                                                              !.outFile = Undefined])} :
                  /\ other.ok
                  /\ OutFilesOf(built) = OutFilesOf(other.v)

\* tasks were built for a request that gives an output and a different
\* outFile
C7_Witness ==
    /\ built # <<>>
    /\ Truthy(options.output)
    /\ Truthy(options.outFile)
    /\ options.output # options.outFile
    /\ Truthy(built[1].outFile)

\* the request is an object with a sourceMap and neither output nor outFile
SourceMapWithoutDestination ==
    /\ options.kind = "object"
    /\ Truthy(options.sourceMap)
    /\ ~Truthy(options.output)
    /\ ~Truthy(options.outFile)

\* C8, as claimed: a call whose request has a sourceMap and neither output
\* nor outFile fails with the error of validateOptions for the missing
\* destination, and nothing is handed to the matcher, the compiler or the
\* file system in it.
C8_AsClaimed ==
    SourceMapWithoutDestination =>
        /\ NothingDone
        /\ pc \in {"validate", "done"}
        /\ pc = "done" => Raised("NoOutput")

\* C8, amended: so it is for a request that has a data or a file as well.
C8_SourceMapNeedsDestination ==
    (SourceMapWithoutDestination /\ (Truthy(options.data) \/ Truthy(options.file))) =>
        /\ NothingDone
        /\ pc \in {"validate", "done"}
        /\ pc = "done" => Raised("NoOutput")

\* render has rejected a request with a data, a sourceMap and no destination
C8_Witness ==
    /\ SourceMapWithoutDestination
    /\ Truthy(options.data)
    /\ mode = "async"
    /\ ~callback
    /\ outcome = [kind |-> "error", err |-> "NoOutput"]

\* C9, as claimed: a call whose options are not an options object, or have
\* neither data nor file, fails with an error of validateOptions for an
\* invalid request, and nothing is handed to the matcher, the compiler or the
\* file system in it.
C9_InvalidRequest ==
    (options.kind # "object" \/ (~Truthy(options.data) /\ ~Truthy(options.file))) =>
        /\ NothingDone
        /\ pc \in {"validate", "done"}
        /\ pc = "done" => Raised("InvalidOptions") \/ Raised("NoInput")

\* the request has an item of data and a destination that is a string
\* without a file extension
DataWithStaticDirectory ==
    /\ options.kind = "object"
    /\ Truthy(options.data)
    /\ arrayify(options.data) # <<>>
    /\ \E destination \in {OrElse(options.output, options.outFile)} :
          IsString(destination) /\ Truthy(destination) /\ ~isFile(destination)

\* C10, as claimed: a call with data and a static directory as its outFile or
\* output fails while its tasks are built, with the error of getOutFile for
\* an invalid output; nothing is compiled and nothing is written.
C10_DataWithDirectory ==
    DataWithStaticDirectory =>
        /\ compiled = <<>> /\ writes = <<>> /\ disk = {}
        /\ \A k \in 1..Len(log) : log[k].op # "compile"
        /\ pc \in {"validate", "sources", "tasks", "done"}
        /\ pc = "done" => Raised("InvalidOutput")

\* the request has data, every item of which getTasks takes for data, and a
\* callback as its destination
DataWithCallback ==
    /\ options.kind = "object"
    /\ Truthy(options.data)
    /\ arrayify(options.data) # <<>>
    /\ \A i \in 1..Len(arrayify(options.data)) : ~isFile(arrayify(options.data)[i])
    /\ OrElse(options.output, options.outFile).kind = "function"

\* the tasks of the call are built, or building them has thrown
TasksBuilt == built # <<>>
BuildThrew == failedAt = "tasks"

\* what the destination callback of the request returns for source i
Returned(i) == CallFn(OrElse(options.output, options.outFile).name, ToText(SourceList[i]))

\* C11, as claimed: for data with a callback as output or outFile, building
\* the tasks succeeds if the callback returns a file path for every item, and
\* the outFile of each task is then the absolute path of what the callback
\* returned for it, a sass, scss or css suffix replaced by .css; it fails
\* with the error of getOutFile for an invalid output if the callback returns
\* a directory for an item.
C11_CallbackWithData ==
    (DataWithCallback /\ (TasksBuilt \/ BuildThrew)) =>
        IF \A i \in 1..Len(SourceList) : isFile(Returned(i))
            THEN /\ TasksBuilt
                 /\ \A i \in 1..Len(built) :
                        built[i].outFile =
                            Str(PathResolve(ReplaceCssSuffix(Returned(i).s)))
        ELSE Raised("InvalidOutput")

\* p is an absolute path with the suffix suf
AbsoluteWithSuffix(p, suf) == IsString(p) /\ p.s # <<>> /\ p.s[1] = "/" /\ EndsWith(p.s, suf)

\* C12, as claimed: every task built from a request validateOptions accepts
\* (for a source that getTasks takes for what the request gave it as) has, if
\* it has an outFile, an absolute path ending in .css as its outFile and, if
\* it has a sourceMap, an absolute path ending in .map as its sourceMap.
C12_JobPaths ==
    \A i \in 1..Len(built) :
        (IsDataTask(i) \/ IsFileTask(i)) =>
            /\ built[i].outFile # Undefined =>
                  AbsoluteWithSuffix(built[i].outFile, <<".", "c", "s", "s">>)
            /\ built[i].sourceMap # Undefined =>
                  AbsoluteWithSuffix(built[i].sourceMap, <<".", "m", "a", "p">>)

\* what follows the last slash of the path p
AfterLastSlash(p) ==
    LET slashes == Positions(p, "/")
    IN  IF slashes = {} THEN p
        ELSE SubSeq(p, (CHOOSE i \in slashes : \A j \in slashes : j <= i) + 1, Len(p))

\* the destination of source i before getOutFile resolves it: the output (or
\* outFile) of the request, or what it returns for the source if it is a
\* callback
DestinationOf(i) ==
    LET given == OrElse(options.output, options.outFile)
    IN  IF given.kind = "function" THEN CallFn(given.name, ToText(SourceList[i]))
        ELSE given

\* getTasks has just returned the tasks of the call
JustBuilt == built # <<>> /\ compiled = <<>> /\ pc \in {"reduce", "compile"}

\* C13: when the tasks of a call have been built, the outFile of a task built for a file whose destination (static, or
\* returned by the callback for that file) is a directory is the absolute
\* path of that directory followed by what follows the last slash of the
\* file's path, with a final .sass, .scss or .css replaced by .css.
C13_DirectoryDestination ==
    JustBuilt => \A i \in 1..Len(built) :
        (IsFileTask(i) /\ IsString(DestinationOf(i)) /\ ~isFile(DestinationOf(i))) =>
            built[i].outFile =
                Str(PathResolve(ReplaceCssSuffix(
                    DestinationOf(i).s \o <<"/">> \o AfterLastSlash(SourceList[i].s))))

\* a task was built for t/b.sass with the callback that returns the directory
\* d: its outFile is /w/d/b.css
C13_Witness ==
    /\ JustBuilt
    /\ Len(built) = 2
    /\ IsFileTask(2)
    /\ SourceList[2] = Str(FileB)
    /\ options.output = Fn("toDir")
    /\ built[2].outFile = Str(<<"/", "w", "/", "d", "/", "b", ".", "c", "s", "s">>)

\* the sourceMap of the request, or what it returns for the outFile of task
\* i if it is a callback
MapSpecOf(i) ==
    IF options.sourceMap.kind = "function"
        THEN CallFn(options.sourceMap.name, ToText(built[i].outFile))
    ELSE options.sourceMap

SegmentOf(entry) ==
    IF entry = Str(GlobAll) THEN <<Str(FileA), Str(FileB)>>
    ELSE IF entry = Str(GlobNone) THEN <<>>
    ELSE <<entry>>

\* the number of files that the first k entries stand for
RECURSIVE FilesBefore(_, _)
FilesBefore(entries, k) ==
    IF k = 0 THEN 0 ELSE FilesBefore(entries, k - 1) + Len(SegmentOf(entries[k]))

\* the sources of the call were resolved from the file of the request
SourcesResolved ==
    /\ options.kind = "object"
    /\ ~Truthy(options.data)
    /\ sources # Undefined

\* C15: the list getSourceFiles / getSourceFilesSync returns is the segments
\* of the entries of the file specification one after the other, in entry
\* order: entry k fills the places after those of the entries before it, with
\* the matcher's list for a pattern and with the entry itself, whether or not
\* such a file exists, otherwise.  A call whose tasks are built has a task
\* for each of them, so that a missing file is for the compiler to report.
C15_SourceResolution ==
    /\ (SourcesResolved /\ pc = "tasks") =>
          LET entries == arrayify(options.file)
          IN  /\ sources.kind = "array"
              /\ Len(sources.a) = FilesBefore(entries, Len(entries))
              /\ \A k \in 1..Len(entries) :
                    SubSeq(sources.a, FilesBefore(entries, k - 1) + 1,
                           FilesBefore(entries, k)) = SegmentOf(entries[k])
    /\ (SourcesResolved /\ JustBuilt) =>
          /\ Len(built) = Len(sources.a)
          /\ \A i \in 1..Len(built) : sources.a[i] \in {built[i].file, built[i].data}

\* the sources of file: ['*/*.s*', 's/a.scss'] are resolved, the two matches
\* of the pattern before the literal entry, and the compiler has failed on a
\* task
C15_Witness ==
    /\ SourcesResolved
    /\ options.file = Arr(<<Str(GlobAll), Str(FileA)>>)
    /\ sources = Arr(<<Str(FileA), Str(FileB), Str(FileA)>>)
    /\ failedAt \in {"compile", "compiling"}

RECURSIVE DiskAfter(_, _)
\* the files on disk once the writes ops have been done one after the other
DiskAfter(ops, files) ==
    IF ops = <<>> THEN files
    ELSE DiskAfter(Tail(ops), FileWritten(files, Head(ops).path, Head(ops).content))

\* what renderSync returns and leaves on disk for the tasks of the call when
\* the compiler and the file system do not fail: the result of every task,
\* and the files of the writes done in task order
SyncResults == marshalArray([i \in 1..Len(tasks) |-> ResultOf(tasks[i])])
SyncDisk ==
    IF HasOutput
        THEN DiskAfter(WriteOps(tasks, [i \in 1..Len(tasks) |-> ResultOf(tasks[i])], 1), {})
    ELSE {}

\* C16, as claimed: render and renderSync are the same function of the
\* request and of what the matcher, the compiler and the file system do.  A
\* call that throws in one mode fails in the other, so a call of either mode
\* that returns results has met no failure, and it returns what renderSync
\* returns then and leaves the files renderSync leaves then.
C16_SyncAsyncEquivalence ==
    Succeeded =>
        /\ outcome = [kind |-> "value", v |-> SyncResults]
        /\ disk = SyncDisk

\* the calls of the compiler so far, in the order in which they were made
CompileCalls == SelectSeq(log, LAMBDA e : e.op = "compile")

\* C17: render hands every task to the compiler, in task order, before any
\* compilation completes; in whatever order they complete, the result kept
\* at place i is the result of task i, a render that succeeds resolves with
\* these results in task order (the one result itself if there is one task),
\* and a file on disk at the outFile of task i holds the css of the result
\* of task i.
C17_AsyncResultOrder ==
    mode = "async" =>
        /\ pc = "compiling" =>
              /\ Len(compiled) = Len(tasks)
              /\ CompileCalls = [i \in 1..Len(tasks) |-> [op |-> "compile", task |-> i]]
        /\ \A i \in 1..Len(compiled) :
              compiled[i] # Pending => compiled[i] = ResultOf(tasks[i])
        /\ Succeeded =>
              outcome.v = IF Len(tasks) = 1 THEN ResultOf(tasks[1])
                          ELSE Arr([i \in 1..Len(tasks) |-> ResultOf(tasks[i])])
        /\ \A f \in disk : \A i \in 1..Len(tasks) :
              f.path = tasks[i].outFile => f.content = ResultOf(tasks[i]).css

\* the compilation of the second task has completed before that of the first,
\* and the two tasks have different results
C17_Witness ==
    /\ mode = "async"
    /\ pc = "compiling"
    /\ Len(tasks) = 2
    /\ compiled[1] = Pending
    /\ compiled[2] = ResultOf(tasks[2])
    /\ ResultOf(tasks[1]) # ResultOf(tasks[2])

\* the call has failed in a compilation: sass.renderSync has thrown, or a
\* promise of compile has rejected
CompileFailed == failedAt \in {"compile", "compiling"}

\* C18: when a compilation fails the call fails with the error of the
\* compiler, returns no result and writes nothing.  renderSync has then
\* called the compiler for the tasks 1..k only, k the task that failed, each
\* task before k has its result and no task after k was compiled; render
\* rejects (or, given a callback, hands the error to it) at the first
\* rejection, whatever compilations are still under way.
C18_CompileFailFast ==
    CompileFailed =>
        /\ Raised("CompileError")
        /\ outcome.kind = "value" => outcome.v = Undefined
        /\ writes = <<>> /\ disk = {}
        /\ mode = "sync" =>
              /\ failedAt = "compile"
              /\ Len(compiled) < Len(tasks)
              /\ CompileCalls = [i \in 1..(Len(compiled) + 1) |->
                                   [op |-> "compile", task |-> i]]
              /\ \A i \in 1..Len(compiled) : compiled[i] = ResultOf(tasks[i])
        /\ mode = "async" =>
              /\ failedAt = "compiling"
              /\ \E i \in 1..Len(compiled) : compiled[i] = Pending

\* renderSync of two tasks has thrown the error of the first compilation, and
\* the second task was never handed to the compiler
C18_Witness ==
    /\ mode = "sync"
    /\ failedAt = "compile"
    /\ Len(tasks) = 2
    /\ compiled = <<>>
    /\ CompileCalls = <<[op |-> "compile", task |-> 1]>>
    /\ outcome = [kind |-> "error", err |-> "CompileError"]

\* a write of the call did not reach the disk: ensureDir / ensureDirSync or
\* fs.writeFile / fs.writeFileSync has failed for it
StorageFailed == \E k \in 1..Len(writes) : writes[k].state \in {"failed", "swallowed"}

\* C19, as claimed: a call with an output in which the creation of a
\* directory or the write of a file has failed, for the css or the map of any
\* task, fails with the storage error; it never returns results.
C19_StorageFailuresPropagate ==
    (pc = "done" /\ HasOutput /\ StorageFailed) =>
        /\ ~Succeeded
        /\ outcome.kind = "value" => outcome.v = Undefined
        /\ failedAt \in {"write", "writing"} => Raised("StorageError")

\* render was called with a callback function
CallbackMode == mode = "async" /\ callback

\* C20, as claimed: render with a callback calls it at most once, and not
\* before the call is over; once the call is over it has called it exactly
\* once and its promise has not rejected.  After a run in which nothing has
\* failed the callback got (null, results), results the marshaled result;
\* after a failure of the validation, the matcher, the task building, a
\* compilation or a write it got the error and no results.
C20_CallbackOnce ==
    CallbackMode =>
        /\ Len(cbCalls) <= 1
        /\ pc # "done" => cbCalls = <<>>
        /\ pc = "done" =>
              /\ Len(cbCalls) = 1
              /\ outcome.kind = "value"
              /\ IF failedAt = "none" /\ ~StorageFailed
                    THEN cbCalls[1] = [err |-> "null", results |-> marshalArray(compiled)]
                 ELSE cbCalls[1].err # "null" /\ cbCalls[1].results = Undefined

\* the request supplies both data and file
DataAndFile ==
    options.kind = "object" /\ Truthy(options.data) /\ Truthy(options.file)

\* the calls of the matcher in the call
GlobCalls == SelectSeq(log, LAMBDA e : e.op = "glob")

\* C21: in a call whose request supplies both data and file the matcher is
\* never called, the sources are the data of the request and, once the tasks
\* are built, there is one task per data entry, in the order of the entries,
\* with the entry as its data
C21_DataFavoured ==
    DataAndFile =>
        /\ GlobCalls = <<>>
        /\ sources # Undefined => sources = options.data
        /\ TasksBuilt =>
              /\ Len(built) = Len(arrayify(options.data))
              /\ \A i \in 1..Len(built) :
                    IsDataTask(i) => built[i].data = arrayify(options.data)[i]

\* two data strings and a pattern that matches two files: two tasks were
\* built, for the data strings, and compiled
C21_Witness ==
    /\ DataAndFile
    /\ options.data = Arr(<<Str(DataA), Str(DataB)>>)
    /\ options.file = Str(GlobAll)
    /\ Len(built) = 2
    /\ built[1].data = Str(DataA) /\ built[2].data = Str(DataB)
    /\ Len(compiled) = 2 /\ compiled[2] = ResultOf(built[2])
    /\ GlobCalls = <<>>

\* C22, as claimed: the tasks of a request with data all carry data content,
\* each the data entry it was built from, and the tasks of a request without
\* data all carry file content, each the file it was built from and no data,
\* whatever the text of the entry
C22_UniformTypeTag ==
    TasksBuilt =>
        \A i \in 1..Len(built) :
            IF Truthy(options.data)
                THEN built[i].data = SourceList[i]
            ELSE built[i].file = SourceList[i] /\ ~Truthy(built[i].data)

\* the sources of the request are resolved files, it has an outFile, and its
\* sourceMap is a string that is not a file path, as 'dir'
DirectorySourceMap ==
    /\ options.kind = "object"
    /\ ~Truthy(options.data)
    /\ Truthy(options.outFile)
    /\ IsString(options.sourceMap) /\ Truthy(options.sourceMap)
    /\ ~isFile(options.sourceMap)
    /\ sources # Undefined

\* the call has failed with one of the errors whose message has 'Invalid'
FailedInvalid == Raised("InvalidOutput") \/ Raised("InvalidOptions")

WriteCalls == SelectSeq(log, LAMBDA e : e.op = "write")

\* C24: in renderSync the compiler is called for the tasks 1, 2, ... in that
\* order, each call after the one before it has returned, and no compiler
\* call comes after a write; the writes are done one at a time in task
\* order, the css of a task before its map, none is ever under way while
\* another step runs, and renderSync returns only when the last is done
C24_SyncOrdering ==
    mode = "sync" =>
        /\ CompileCalls = [i \in 1..Len(CompileCalls) |-> [op |-> "compile", task |-> i]]
        /\ Len(CompileCalls) \in {Len(compiled), Len(compiled) + 1}
        /\ Len(CompileCalls) > Len(compiled) => failedAt = "compile"
        /\ \A a, b \in 1..Len(log) :
              (a < b /\ log[a].op = "write") => log[b].op = "write"
        /\ \A k \in 1..Len(writes) : writes[k].state # "pending"
        /\ writes # <<>> =>
              /\ Len(compiled) = Len(tasks)
              /\ \E ops \in {WriteOps(tasks, compiled, 1)} :
                    /\ Len(writes) <= Len(ops)
                    /\ \A k \in 1..Len(writes) :
                          /\ writes[k].task = ops[k].task
                          /\ writes[k].what = ops[k].what
                          /\ writes[k].path = ops[k].path
                    /\ WriteCalls = [k \in 1..Len(WriteCalls) |->
                                       [op |-> "write", task |-> ops[k].task,
                                        what |-> ops[k].what]]
                    /\ \A k, l \in 1..Len(ops) :
                          k < l => \/ ops[k].task < ops[l].task
                                   \/ /\ ops[k].task = ops[l].task
                                      /\ ops[k].what = "css" /\ ops[l].what = "map"
                    /\ (Succeeded /\ HasOutput) =>
                          /\ Len(writes) = Len(ops)
                          /\ Len(WriteCalls) = Len(ops)

\* renderSync of two tasks with source maps has returned: the css and the map
\* of the first task were written before the css and the map of the second
C24_Witness ==
    /\ mode = "sync"
    /\ Succeeded
    /\ Len(tasks) = 2
    /\ CompileCalls = <<[op |-> "compile", task |-> 1], [op |-> "compile", task |-> 2]>>
    /\ WriteCalls = <<[op |-> "write", task |-> 1, what |-> "css"],
                      [op |-> "write", task |-> 1, what |-> "map"],
                      [op |-> "write", task |-> 2, what |-> "css"],
                      [op |-> "write", task |-> 2, what |-> "map"]>>

\* C25, as claimed: the writes of a call with an output, the css and the map
\* of every task handed to the compiler, all have different paths
C25_NoWriteContention ==
    (HasOutput /\ pc = "write") =>
        \E ops \in {WriteOps(tasks, compiled, 1)} :
            \A k, l \in 1..Len(ops) : k # l => ops[k].path # ops[l].path

\* C26: the task the reducer returns for two or more tasks of one outFile
\* has the outFile, the sourceMap and the other options of the first of them,
\* whatever those of the later ones are
C26_MergedGroupFields ==
    Reduced =>
        \A j \in 1..Len(tasks) :
            LET members == Sorted(Members(tasks[j].outFile))
            IN  Len(members) >= 2 =>
                    /\ tasks[j].outFile = built[members[1]].outFile
                    /\ tasks[j].sourceMap = built[members[1]].sourceMap
                    /\ tasks[j].rest = built[members[1]].rest

\* two tasks of one outFile with different sourceMaps were merged into one
\* task, which has the sourceMap of the first
C26_Witness ==
    /\ Reduced
    /\ Len(built) = 2
    /\ built[1].outFile = built[2].outFile
    /\ built[1].sourceMap # built[2].sourceMap
    /\ Len(tasks) = 1
    /\ tasks[1].sourceMap = built[1].sourceMap

\* a source as it stands in the content of a merged task: a data string as
\* it is, a file as the statement that imports it
MergedForm(task) ==
    IF Truthy(task.data) THEN task.data.s
    ELSE <<"@", "i", "m", "p", "o", "r", "t", " ", "'">>
         \o PathResolve(task.file.s) \o <<"'", ";">>

\* C27, as claimed: after the reducer has returned, the task of each outFile
\* holds the sources of the tasks given for that outFile, all of them, once
\* each and in their order (the source of a task is its data when it has
\* one, its file otherwise): the one source unchanged when there is one task,
\* and otherwise the data made of the sources, one per line; with C3, which
\* gives one task per outFile, no source is lost or duplicated.  The list
\* the reducer was given is as it was.
C27_SourceConservation ==
    Reduced =>
        \A j \in 1..Len(tasks) :
            LET members == Sorted(Members(tasks[j].outFile))
            IN  (\A k \in 1..Len(members) : IsString(InputOf(built[members[k]]))) =>
                    IF Len(members) = 1
                        THEN InputOf(tasks[j]) = InputOf(built[members[1]])
                    ELSE tasks[j].data =
                            Str(JoinWith([k \in 1..Len(members) |->
                                            MergedForm(built[members[k]])],
                                         <<"\n">>))

\* a task carries exactly one of the content properties file and data
OneContentField(task) == (task.data = Undefined) # (task.file = Undefined)

\* every source of the call was taken for what the request gave it as
RightlyClassified == \A i \in 1..Len(built) : IsDataTask(i) \/ IsFileTask(i)

\* C28, as claimed: in a call in which each source was taken for what the
\* request gave it as, and whose data is not an empty string, every task, as
\* getTasks builds it and as it is handed to the compiler, has exactly one of
\* data and file
C28_SinglePrincipalSource ==
    (TasksBuilt /\ RightlyClassified /\ options.data # Str(<<>>)) =>
        /\ \A i \in 1..Len(built) : OneContentField(built[i])
        /\ \A j \in 1..Len(tasks) : OneContentField(tasks[j])

\* C29: a call starts its first write only when the compiler has returned a
\* result for every task of the call, the compiler is never called after a
\* write was started, and a call in which a compilation has failed has
\* started no write and has written no file
C29_CompileBeforeWrite ==
    /\ writes # <<>> =>
          /\ Len(compiled) = Len(tasks)
          /\ \A i \in 1..Len(tasks) : compiled[i] = ResultOf(tasks[i])
          /\ Len(CompileCalls) = Len(tasks)
          /\ failedAt \notin {"compile", "compiling"}
    /\ disk # {} => writes # <<>>
    /\ pc \in {"compile", "compiling"} => writes = <<>> /\ disk = {}
    /\ pc \in {"write", "writing"} =>
          \A i \in 1..Len(tasks) : compiled[i] = ResultOf(tasks[i])
    /\ CompileFailed => writes = <<>> /\ disk = {} /\ WriteCalls = <<>>

\* render of two tasks with an output: the first task was compiled, the
\* compilation of the second has failed, and nothing was written
C29_Witness ==
    /\ mode = "async"
    /\ HasOutput
    /\ Len(tasks) = 2
    /\ failedAt = "compiling"
    /\ compiled[1] = ResultOf(tasks[1])
    /\ compiled[2] = Pending
    /\ writes = <<>> /\ disk = {}

\* the file specification of the request has expanded to no source file
EmptyExpansion ==
    /\ options.kind = "object"
    /\ ~Truthy(options.data)
    /\ sources = Arr(<<>>)

\* C30: a call whose file specification has expanded to no source file ends
\* with an error (the TypeError of reading tasks[0].outFile) right after the
\* expansion: it returns no result, and the compiler and the file system are
\* never called
C30_EmptyExpansion ==
    EmptyExpansion =>
        /\ pc \in {"tasks", "done"}
        /\ CompileCalls = <<>> /\ compiled = <<>>
        /\ writes = <<>> /\ disk = {} /\ WriteCalls = <<>>
        /\ pc = "done" =>
              /\ failedAt = "tasks"
              /\ Raised("TypeError")
              /\ outcome.kind = "value" => outcome.v = Undefined

\* render of a pattern that matches nothing has rejected
C30_Witness ==
    /\ EmptyExpansion
    /\ options.file = Str(GlobNone)
    /\ mode = "async" /\ ~callback
    /\ GlobCalls = <<[op |-> "glob"]>>
    /\ outcome = [kind |-> "error", err |-> "TypeError"]
====
